---- MODULE Spec2Model ----
(***************************************************************************)
(* A model of boktaisim's value engine (src/boktaisim/classes.py):         *)
(* clamp_and_scale, WeatherInfo (construction, update, sun_position,       *)
(* sun_state, current_temp) and BoktaiSim (value and its signals).         *)
(*                                                                         *)
(* Numbers.  Python floats are modelled as exact rationals <<n, d>> in     *)
(* lowest terms with d > 0; <<0, 0>> (NaV) stands for "no value".          *)
(* Temperatures are integers (one unit = 0.01 degree, the grid that        *)
(* round(x, 2) produces).  Time is counted in ticks, TicksPerSecond ticks  *)
(* to the second, so that round(timedelta.total_seconds()) has something   *)
(* to round.                                                               *)
(***************************************************************************)
EXTENDS Integers, Sequences, FiniteSets, TLC

VARIABLES
    weather,      \* the WeatherInfo observation (its fields)
    now,          \* the wall clock, in ticks
    version,      \* BoktaiSim._version
    lunar_mode,   \* BoktaiSim._lunar_mode
    pc,           \* "idle", or "done" when a property read has just returned or raised
    rd,           \* the read of BoktaiSim.value that has just ended
    sun,          \* the read of sun_position or sun_state that has just ended
    given,        \* the last triple handed to WeatherInfo.__init__ / fetched by update
    call,         \* the last call of clamp_and_scale (pure-function specification)
    gui           \* the WindowManager: its session, its cache, its last do_update

vars == <<weather, now, version, lunar_mode, pc, rd, sun, given, call, gui>>

----------------------------------------------------------------------------
(* Bounds of the model *)

\* temperatures range over 0..MaxTemp
MaxTemp == 2
\* arguments of a bare clamp_and_scale call range over -1..MaxArg
MaxArg == 2
\* clock advances allowed while one read of sun_state is running
MaxDrift == 1
\* model resolution of the clock: ticks per second
TicksPerSecond == 2

----------------------------------------------------------------------------
(* Exact rationals *)

Abs(x) == IF x < 0 THEN -x ELSE x

RECURSIVE Gcd(_, _)
Gcd(a, b) == IF b = 0 THEN a ELSE Gcd(b, a % b)

\* the rational n/d (d # 0) in lowest terms with a positive denominator
Q(n, d) ==
    LET g == Gcd(Abs(n), Abs(d))
        s == IF d < 0 THEN -1 ELSE 1
    IN  <<(s * n) \div g, (s * d) \div g>>

NaV == <<0, 0>>
I(n) == <<n, 1>>
QAdd(a, b) == Q(a[1] * b[2] + b[1] * a[2], a[2] * b[2])
QSub(a, b) == Q(a[1] * b[2] - b[1] * a[2], a[2] * b[2])
QMul(a, b) == Q(a[1] * b[1], a[2] * b[2])
QDiv(a, b) == Q(a[1] * b[2], a[2] * b[1])
QLt(a, b) == a[1] * b[2] < b[1] * a[2]
QLe(a, b) == a[1] * b[2] <= b[1] * a[2]

\* Python's round(x) on a float: nearest integer, ties to the even one
Round(q) ==
    LET f == q[1] \div q[2]
        r == q[1] - f * q[2]
    IN  IF 2 * r < q[2] THEN f
        ELSE IF 2 * r > q[2] THEN f + 1
        ELSE IF f % 2 = 0 THEN f ELSE f + 1

----------------------------------------------------------------------------
(* clamp_and_scale, classes.py 636-650.  The result is [err, val]: err is  *)
(* "none" when a value is returned and otherwise the exception raised.     *)

Raise(e) == [err |-> e, val |-> NaV]
Return(v) == [err |-> "none", val |-> v]

\* clamp_and_scale forgetting to add new_min_value
clamp_and_scale_from_zero(old_min_value, old_max_value, new_min_value, new_max_value, current_value) ==
    LET old_max == IF QLt(old_max_value, current_value) THEN current_value ELSE old_max_value
    IN  IF ~(QLe(old_min_value, current_value) /\ QLe(current_value, old_max))
        THEN Raise("AssertionError")
        ELSE IF ~QLt(new_min_value, new_max_value) THEN Raise("AssertionError")
        ELSE IF QSub(old_max, old_min_value) = I(0) THEN Raise("ZeroDivisionError")
        ELSE Return(QDiv(QMul(QSub(current_value, old_min_value),
                              QSub(new_max_value, new_min_value)),
                         QSub(old_max, old_min_value)))

\* clamp_and_scale without the widening of old_max_value: a value above it fails
clamp_and_scale_no_widen(old_min_value, old_max_value, new_min_value, new_max_value, current_value) ==
    IF ~(QLe(old_min_value, current_value) /\ QLe(current_value, old_max_value))
    THEN Raise("AssertionError")
    ELSE IF ~QLt(new_min_value, new_max_value) THEN Raise("AssertionError")
    ELSE IF QSub(old_max_value, old_min_value) = I(0) THEN Raise("ZeroDivisionError")
    ELSE Return(QAdd(QDiv(QMul(QSub(current_value, old_min_value),
                                QSub(new_max_value, new_min_value)),
                           QSub(old_max_value, old_min_value)),
                     new_min_value))

clamp_and_scale(old_min_value, old_max_value, new_min_value, new_max_value, current_value) ==
    LET old_max == IF QLt(old_max_value, current_value)
                   THEN current_value ELSE old_max_value
        old_range == QSub(old_max, old_min_value)
        new_range == QSub(new_max_value, new_min_value)
    IN  IF ~(QLe(old_min_value, current_value) /\ QLe(current_value, old_max))
        THEN Raise("AssertionError")
        ELSE IF ~QLt(new_min_value, new_max_value) THEN Raise("AssertionError")
        ELSE IF old_range = I(0) THEN Raise("ZeroDivisionError")
        ELSE Return(QAdd(QDiv(QMul(QSub(current_value, old_min_value), new_range),
                              old_range),
                         new_min_value))

----------------------------------------------------------------------------
(* Static tables, constants.py *)

\* WEATHER_STATES, constants.py 39-110 (min, avg, max, mod of each condition code)
WEATHER_STATES ==
    [sn |-> [min |-> 0, avg |-> 2, max |-> 5,  mod |-> 0],
     sl |-> [min |-> 0, avg |-> 1, max |-> 3,  mod |-> -2],
     h  |-> [min |-> 0, avg |-> 1, max |-> 3,  mod |-> -2],
     t  |-> [min |-> 0, avg |-> 1, max |-> 2,  mod |-> -2],
     hr |-> [min |-> 0, avg |-> 2, max |-> 4,  mod |-> -1],
     lr |-> [min |-> 0, avg |-> 3, max |-> 8,  mod |-> 0],
     s  |-> [min |-> 1, avg |-> 5, max |-> 9,  mod |-> 1],
     hc |-> [min |-> 0, avg |-> 2, max |-> 4,  mod |-> -1],
     lc |-> [min |-> 2, avg |-> 5, max |-> 10, mod |-> 1],
     c  |-> [min |-> 4, avg |-> 7, max |-> 10, mod |-> 1]]

WeatherCodes == DOMAIN WEATHER_STATES

\* FEATURE_WEIGHTS, constants.py 152-157
FEATURE_WEIGHTS ==
    [temperature |-> 10, weather |-> 20, sun_location |-> 40, random |-> 25]

\* value_names, classes.py 543: the order in which value blends the signals
value_names == <<"temperature", "weather", "sun_location", "random">>

----------------------------------------------------------------------------
(* The random source (Python's random module) *)

\* What random.triangular(low, high, mode) can return, as samples on the integer
\* grid.  With low = high it returns low; with the mode inside [low, high] it lies
\* in [low, high] (sampled: the two ends and the mode); with the mode outside,
\* its formula low + (high - low) * sqrt(u * c) overshoots the bound on the
\* mode's side, up to the geometric mean of the two distances.
triangular(low, high, mode) ==
    IF low = high THEN {low}
    ELSE IF low <= mode /\ mode <= high THEN {low, mode, high}
    ELSE IF mode > high
    THEN {low} \cup {v \in high .. mode : (v - low) * (v - low) < (mode - low) * (high - low)}
    ELSE {high} \cup {v \in mode .. low : (high - v) * (high - v) <= (high - mode) * (high - low)}

\* Samples of random.betavariate(alpha, beta), which lies in [0, 1] whatever the
\* two shape parameters are: the two ends and one value inside.
BetaSamples == {Q(0, 1), Q(3, 10), Q(1, 1)}

----------------------------------------------------------------------------
(* WeatherInfo, classes.py 153-344 *)

\* avg_temp of an observation that was looked up: None (classes.py 168)
NoAvg == -1

Temps == 0 .. MaxTemp

\* WeatherInfo.__init__, classes.py 173-193: the fields of the new observation.
\* The stored current temperature is the field cur (self._current_temp).
WeatherInfo(min_temp, max_temp, current_temp, weather_state, sunrise, sunset, avg_temp, manual, clock) ==
    [min_temp      |-> IF current_temp <= min_temp THEN current_temp ELSE min_temp,
     max_temp      |-> IF current_temp >= max_temp THEN current_temp ELSE max_temp,
     cur           |-> current_temp,
     weather_state |-> weather_state,
     sunrise       |-> sunrise,
     sunset        |-> sunset,
     timestamp     |-> clock,
     avg_temp      |-> avg_temp,
     manual        |-> manual,
     last_update   |-> clock]

\* update's assignments without the expansion of the bounds
Refreshed_unexpanded(w, min_temp, max_temp, the_temp, weather_state, sunrise, sunset, clock) ==
    [w EXCEPT !.timestamp = clock, !.sunrise = sunrise, !.sunset = sunset,
              !.weather_state = weather_state, !.min_temp = min_temp,
              !.max_temp = max_temp, !.cur = the_temp, !.last_update = clock]

\* The assignments of WeatherInfo.update for a looked-up observation,
\* classes.py 203-215, given the record the weather source answered with.
Refreshed(w, min_temp, max_temp, the_temp, weather_state, sunrise, sunset, clock) ==
    [w EXCEPT !.timestamp = clock,
              !.sunrise = sunrise,
              !.sunset = sunset,
              !.weather_state = weather_state,
              !.min_temp = IF the_temp < min_temp THEN the_temp ELSE min_temp,
              !.max_temp = IF the_temp > max_temp THEN the_temp ELSE max_temp,
              !.cur = the_temp,
              !.last_update = clock]

\* current_temp answering with the lower bound for a looked-up observation
current_temp_from_min(w) ==
    IF w.manual THEN triangular(w.min_temp, w.max_temp, w.avg_temp) ELSE {w.min_temp}

\* WeatherInfo.current_temp, classes.py 328-332: the values one read may return
current_temp(w) ==
    IF w.manual THEN triangular(w.min_temp, w.max_temp, w.avg_temp) ELSE {w.cur}

\* round(timedelta.total_seconds()) of a difference of two instants
Seconds(ticks) == Round(Q(ticks, TicksPerSecond))

\* WeatherInfo.sun_position, classes.py 239-257, read when the clock shows `clock`
sun_position(w, clock) ==
    LET seconds_of_daylight == Seconds(w.sunset - w.sunrise)
        seconds_left == Seconds(w.sunset - clock)
        seconds_offest == seconds_of_daylight - seconds_left
        scaled == clamp_and_scale(I(0), I(seconds_of_daylight), I(0), I(100), I(seconds_offest))
    IN  IF scaled.err = "AssertionError" THEN Return(I(-1)) ELSE scaled

----------------------------------------------------------------------------
(* BoktaiSim, classes.py 347-580 *)

weather_min(w) == WEATHER_STATES[w.weather_state].min
weather_avg(w) == WEATHER_STATES[w.weather_state].avg
weather_max(w) == WEATHER_STATES[w.weather_state].max

\* _calulate_sun_value taking only 100 for night: -1 goes on to the scaler
_calulate_sun_value_night_at_100(sun_pos, alpha_min, alpha_max, beta_min, beta_max, sample) ==
    IF sun_pos = I(100)
    THEN [err |-> "none", val |-> I(0), alpha |-> NaV, beta |-> NaV, drew |-> FALSE]
    ELSE
    LET position == IF QLt(I(50), sun_pos) THEN QSub(I(100), sun_pos) ELSE sun_pos
        alpha_precursor == clamp_and_scale(I(0), I(100), I(alpha_min), I(alpha_max), position)
        beta_precursor == clamp_and_scale(I(0), I(100), I(beta_min), I(beta_max), position)
        alpha == IF alpha_min < alpha_max
                 THEN QDiv(alpha_precursor.val, I(100)) ELSE Q(alpha_max, 100)
        beta == IF beta_min < beta_max
                THEN QDiv(beta_precursor.val, I(100)) ELSE Q(beta_max, 100)
        random_value == QMul(sample, I(10))
    IN  IF alpha_min < alpha_max /\ alpha_precursor.err # "none"
        THEN [err |-> alpha_precursor.err, val |-> NaV, alpha |-> NaV, beta |-> NaV,
              drew |-> FALSE]
        ELSE IF beta_min < beta_max /\ beta_precursor.err # "none"
        THEN [err |-> beta_precursor.err, val |-> NaV, alpha |-> alpha, beta |-> NaV,
              drew |-> FALSE]
        ELSE [err |-> "none",
              val |-> IF QLe(position, I(5)) /\ QLt(I(2), random_value)
                      THEN QSub(random_value, I(2)) ELSE random_value,
              alpha |-> alpha, beta |-> beta, drew |-> TRUE]

\* _calulate_sun_value without the mirroring of the afternoon
_calulate_sun_value_unmirrored(sun_pos, alpha_min, alpha_max, beta_min, beta_max, sample) ==
    IF sun_pos = I(100) \/ sun_pos = I(-1)
    THEN [err |-> "none", val |-> I(0), alpha |-> NaV, beta |-> NaV, drew |-> FALSE]
    ELSE
    LET position == sun_pos
        alpha_precursor == clamp_and_scale(I(0), I(100), I(alpha_min), I(alpha_max), position)
        beta_precursor == clamp_and_scale(I(0), I(100), I(beta_min), I(beta_max), position)
        alpha == IF alpha_min < alpha_max
                 THEN QDiv(alpha_precursor.val, I(100)) ELSE Q(alpha_max, 100)
        beta == IF beta_min < beta_max
                THEN QDiv(beta_precursor.val, I(100)) ELSE Q(beta_max, 100)
        random_value == QMul(sample, I(10))
    IN  IF alpha_min < alpha_max /\ alpha_precursor.err # "none"
        THEN [err |-> alpha_precursor.err, val |-> NaV, alpha |-> NaV, beta |-> NaV,
              drew |-> FALSE]
        ELSE IF beta_min < beta_max /\ beta_precursor.err # "none"
        THEN [err |-> beta_precursor.err, val |-> NaV, alpha |-> alpha, beta |-> NaV,
              drew |-> FALSE]
        ELSE [err |-> "none",
              val |-> IF QLe(position, I(5)) /\ QLt(I(2), random_value)
                      THEN QSub(random_value, I(2)) ELSE random_value,
              alpha |-> alpha, beta |-> beta, drew |-> TRUE]

\* _calulate_sun_value taking 2 off at the edges whatever the sample
_calulate_sun_value_always_less(sun_pos, alpha_min, alpha_max, beta_min, beta_max, sample) ==
    IF sun_pos = I(100) \/ sun_pos = I(-1)
    THEN [err |-> "none", val |-> I(0), alpha |-> NaV, beta |-> NaV, drew |-> FALSE]
    ELSE
    LET position == IF QLt(I(50), sun_pos) THEN QSub(I(100), sun_pos) ELSE sun_pos
        alpha_precursor == clamp_and_scale(I(0), I(100), I(alpha_min), I(alpha_max), position)
        beta_precursor == clamp_and_scale(I(0), I(100), I(beta_min), I(beta_max), position)
        alpha == IF alpha_min < alpha_max
                 THEN QDiv(alpha_precursor.val, I(100)) ELSE Q(alpha_max, 100)
        beta == IF beta_min < beta_max
                THEN QDiv(beta_precursor.val, I(100)) ELSE Q(beta_max, 100)
        random_value == QMul(sample, I(10))
    IN  IF alpha_min < alpha_max /\ alpha_precursor.err # "none"
        THEN [err |-> alpha_precursor.err, val |-> NaV, alpha |-> NaV, beta |-> NaV,
              drew |-> FALSE]
        ELSE IF beta_min < beta_max /\ beta_precursor.err # "none"
        THEN [err |-> beta_precursor.err, val |-> NaV, alpha |-> alpha, beta |-> NaV,
              drew |-> FALSE]
        ELSE [err |-> "none",
              val |-> IF QLe(position, I(5))
                      THEN QSub(random_value, I(2)) ELSE random_value,
              alpha |-> alpha, beta |-> beta, drew |-> TRUE]

\* BoktaiSim._calulate_sun_value, classes.py 460-497; sample is what
\* random.betavariate(alpha, beta) returns when it is called (drew).
_calulate_sun_value(sun_pos, alpha_min, alpha_max, beta_min, beta_max, sample) ==
    IF sun_pos = I(100) \/ sun_pos = I(-1)
    THEN [err |-> "none", val |-> I(0), alpha |-> NaV, beta |-> NaV, drew |-> FALSE]
    ELSE
    LET position == IF QLt(I(50), sun_pos) THEN QSub(I(100), sun_pos) ELSE sun_pos
        alpha_precursor == clamp_and_scale(I(0), I(100), I(alpha_min), I(alpha_max), position)
        beta_precursor == clamp_and_scale(I(0), I(100), I(beta_min), I(beta_max), position)
        alpha == IF alpha_min < alpha_max
                 THEN QDiv(alpha_precursor.val, I(100)) ELSE Q(alpha_max, 100)
        beta == IF beta_min < beta_max
                THEN QDiv(beta_precursor.val, I(100)) ELSE Q(beta_max, 100)
        random_value == QMul(sample, I(10))
    IN  IF alpha_min < alpha_max /\ alpha_precursor.err # "none"
        THEN [err |-> alpha_precursor.err, val |-> NaV, alpha |-> NaV, beta |-> NaV,
              drew |-> FALSE]
        ELSE IF beta_min < beta_max /\ beta_precursor.err # "none"
        THEN [err |-> beta_precursor.err, val |-> NaV, alpha |-> alpha, beta |-> NaV,
              drew |-> FALSE]
        ELSE [err |-> "none",
              val |-> IF QLe(position, I(5)) /\ QLt(I(2), random_value)
                      THEN QSub(random_value, I(2)) ELSE random_value,
              alpha |-> alpha, beta |-> beta, drew |-> TRUE]

\* BoktaiSim.temperature_value, classes.py 499-507, for the temperature t that
\* its read of weather.current_temp returned
temperature_value(w, t) ==
    clamp_and_scale(I(w.min_temp), I(w.max_temp), I(0), I(10), I(t))

\* BoktaiSim.weather_value, classes.py 517-525, likewise
weather_value(w, t) ==
    clamp_and_scale(I(w.min_temp), I(w.max_temp), I(weather_min(w)), I(weather_max(w)), I(t))

\* BoktaiSim.random_weather_value, classes.py 509-515: what one read may return
random_weather_value(w) ==
    {I(x) : x \in triangular(weather_min(w), weather_max(w), weather_avg(w))}

\* BoktaiSim.random_sun_value, classes.py 527-529, for the position its access
\* of weather.sun_position returned (the default alpha and beta bounds)
random_sun_value(sun_pos, sample) ==
    _calulate_sun_value(sun_pos, 225, 550, 225, 225, sample)

\* _return_v1 with the gauge of version 1 left ten bars wide
_return_v1_ten_bars(value) == clamp_and_scale(I(0), I(10), I(0), I(10), value)

\* BoktaiSim._return_v1, classes.py 572-580
_return_v1(value) == clamp_and_scale(I(0), I(10), I(0), I(8), value)

\* BoktaiSim._version_return, classes.py 564-570
_version_return(v, value) == IF v = 1 THEN _return_v1(value) ELSE Return(value)

\* The loop of value, classes.py 541-546, over the first n of value_names
RECURSIVE value_sum(_, _)
value_sum(values, n) ==
    IF n = 0 THEN I(0)
    ELSE QAdd(value_sum(values, n - 1),
              QMul(values[value_names[n]], I(FEATURE_WEIGHTS[value_names[n]])))

\* the divisor of tests.py instead of the sum of FEATURE_WEIGHTS
value_count_hundred(n) == 100

RECURSIVE value_count(_)
value_count(n) ==
    IF n = 0 THEN 0 ELSE value_count(n - 1) + FEATURE_WEIGHTS[value_names[n]]

\* the lunar return without the halving
lunar_return_unhalved(v, sum, count) ==
    LET pre == QDiv(sum, I(count))
        scaled == _version_return(v, pre)
    IN  [err |-> scaled.err, pre |-> pre, scaled |-> scaled.val,
         val |-> IF scaled.err = "none" THEN Round(scaled.val) ELSE 0]

\* value's night return in lunar mode, classes.py 551: pre is what is handed to
\* _version_return, scaled what comes back, val the integer returned
lunar_return(v, sum, count) ==
    LET pre == QDiv(QDiv(sum, I(count)), I(2))
        scaled == _version_return(v, pre)
    IN  [err |-> scaled.err, pre |-> pre, scaled |-> scaled.val,
         val |-> IF scaled.err = "none" THEN Round(scaled.val) ELSE 0]

\* the daytime return without the clamp to [0, 10]
day_return_unclamped(w, v, sum, count) ==
    LET pre == QAdd(QDiv(sum, I(count)), I(WEATHER_STATES[w.weather_state].mod))
        scaled == _version_return(v, pre)
    IN  [err |-> scaled.err, pre |-> pre, scaled |-> scaled.val,
         val |-> IF scaled.err = "none" THEN Round(scaled.val) ELSE 0]

\* value's daytime return, classes.py 554-562
day_return(w, v, sum, count) ==
    LET initial_result == QAdd(QDiv(sum, I(count)), I(WEATHER_STATES[w.weather_state].mod))
        pre == IF QLt(I(10), initial_result) THEN I(10)
               ELSE IF QLt(initial_result, I(0)) THEN I(0) ELSE initial_result
        scaled == _version_return(v, pre)
    IN  [err |-> scaled.err, pre |-> pre, scaled |-> scaled.val,
         val |-> IF scaled.err = "none" THEN Round(scaled.val) ELSE 0]

----------------------------------------------------------------------------
(* One read of BoktaiSim.value, classes.py 531-562.  weather.sun_position  *)
(* reads the clock at every access; clocks[k] is what the clock shows at   *)
(* the read's k-th access, in the order in which the accesses happen.      *)

\* the keys of _sim_dict: the latlong strings and 'manual'
Keys == {"0,0", "95,0", "0,200", "manual"}

\* a place of _sim_dict without a session, and the session of an observation
NoSession == [present |-> FALSE, weather |-> WeatherInfo(0, 1, 0, "c", 0, 0, NoAvg, FALSE, 0)]
Session(w) == [present |-> TRUE, weather |-> w]

\* What the Manual tab holds when do_update reads it: whether the three
\* temperature entries are filled and numeric, the scale they are read in, the
\* entries (min, avg, max), the weather option, whether the time options are
\* numbers, and the hours and minutes of sunrise and sunset.
Form(filled, numeric, scale, temps, state, times, sunset) ==
    [filled |-> filled, numeric |-> numeric, scale |-> scale, temps |-> temps,
     state |-> state, times |-> times, sunrise |-> <<0, 1>>, sunset |-> sunset]

\* the form of a do_update that did not read the Manual tab
NoForm == Form(FALSE, FALSE, "none", <<0, 0, 0>>, "", FALSE, <<0, 0>>)

\* _last_value before the bar was ever read: None (gui.py 42)
NoValue == -1

\* what the last do_update did: the tab and entries it read, whether it asked
\* the weather source to resolve a location or to refresh an observation
NoRequest ==
    [tab |-> "none", latlong |-> "none", lat |-> "none", lon |-> "none", form |-> NoForm,
     resolved |-> FALSE, refreshed |-> FALSE, raised |-> "none"]

\* WindowManager.__init__, gui.py 42-53: no session, an empty cache, no bar value
\* remembered, the first update still to come, no timed_update pending, no
\* resize handled
NoGui ==
    [boktaisim |-> "none", sim_dict |-> [k \in Keys |-> NoSession], alert |-> "none",
     request |-> NoRequest, last_value |-> NoValue, first_update |-> TRUE, timers |-> 0,
     resized |-> "none"]

\* nothing read of the sun, nothing handed to WeatherInfo, nothing scaled yet
NoSun == [op |-> "none", err |-> "none", clocks |-> <<>>, seen |-> <<>>, out |-> "none"]
NoGiven == [op |-> "none", min_temp |-> 0, max_temp |-> 0, current_temp |-> 0]
NoCall == [made |-> FALSE, args |-> <<0, 0, 0, 0, 0>>, out |-> Raise("none"), inverted |-> FALSE, back |-> Raise("none")]

NoRead ==
    [status |-> "none", err |-> "none", at |-> "none", temps |-> <<>>,
     values |-> [temperature |-> NaV, weather |-> NaV, sun_location |-> NaV, random |-> NaV],
     sum |-> NaV, count |-> 0, seen |-> <<>>, branch |-> "none", pre |-> NaV,
     scaled |-> NaV, result |-> 0,
     draws |-> [temperature |-> 0, sun |-> 0, weather |-> 0]]

Raised(r, e, where) == [r EXCEPT !.status = "raised", !.err = e, !.at = where]
Returned(r, branch, n) == [r EXCEPT !.status = "returned", !.branch = branch, !.result = n]
See(r, position) == [r EXCEPT !.seen = Append(r.seen, position)]

\* The values dictionary and its weighted sum, classes.py 534-547, and the
\* draws made from each random source (random.triangular by current_temp of a
\* manual observation, once in temperature_value and once in weather_value;
\* random.betavariate; random.triangular by random_weather_value): tT and tW are
\* what the two reads of weather.current_temp return, pos what the access of
\* weather.sun_position returns, sample and rnd the draws of random_sun_value
\* and random_weather_value.
signals(w, pos, tT, tW, sample, rnd) ==
    LET temperature == temperature_value(w, tT)
        weatherv == weather_value(w, tW)
        sunv == random_sun_value(pos.val, sample)
        values == [temperature |-> temperature.val, weather |-> weatherv.val,
                   sun_location |-> sunv.val, random |-> rnd]
    IN  IF temperature.err # "none"
        THEN Raised([NoRead EXCEPT !.temps = <<tT>>], temperature.err, "temperature_value")
        ELSE IF weatherv.err # "none"
        THEN Raised([NoRead EXCEPT !.temps = <<tT, tW>>], weatherv.err, "weather_value")
        ELSE IF pos.err # "none"
        THEN Raised([NoRead EXCEPT !.temps = <<tT, tW>>], pos.err, "sun_position")
        ELSE IF sunv.err # "none"
        THEN Raised([NoRead EXCEPT !.temps = <<tT, tW>>, !.seen = <<pos.val>>], sunv.err,
                    "random_sun_value")
        ELSE [NoRead EXCEPT !.status = "running", !.temps = <<tT, tW>>, !.values = values,
                            !.sum = value_sum(values, Len(value_names)),
                            !.count = value_count(Len(value_names)),
                            !.seen = <<pos.val>>,
                            !.draws = [temperature |-> IF w.manual THEN 2 ELSE 0,
                                       sun |-> IF sunv.drew THEN 1 ELSE 0,
                                       weather |-> 1]]

\* value's return in lunar mode, classes.py 551
ReturnLunar(r, v) ==
    LET out == lunar_return(v, r.sum, r.count)
        r1 == [r EXCEPT !.pre = out.pre, !.scaled = out.scaled]
    IN  IF out.err # "none" THEN Raised(r1, out.err, "_version_return")
        ELSE Returned(r1, "lunar", out.val)

\* value's return by day, classes.py 554-562
ReturnDay(r, w, v) ==
    LET out == day_return(w, v, r.sum, r.count)
        r1 == [r EXCEPT !.pre = out.pre, !.scaled = out.scaled]
    IN  IF out.err # "none" THEN Raised(r1, out.err, "_version_return")
        ELSE Returned(r1, "day", out.val)

\* classes.py 552-562: the two comparisons of the night test, p1 and p2 being
\* what their accesses of sun_position return, and the daytime result when both
\* fail.  An access that raises (a division by zero is not caught) ends the read.
night_test(r, w, v, p1, p2) ==
    IF p1.err # "none" THEN Raised(r, p1.err, "sun_position")
    ELSE IF p1.val = I(100) THEN Returned(See(r, p1.val), "night", 0)
    ELSE IF p2.err # "none" THEN Raised(See(r, p1.val), p2.err, "sun_position")
    ELSE IF p2.val = I(-1) THEN Returned(See(See(r, p1.val), p2.val), "night", 0)
    ELSE ReturnDay(See(See(r, p1.val), p2.val), w, v)

\* classes.py 549-553: the lunar test (two more accesses) when lunar_mode is
\* set, then the night test
lunar_test(r, w, v, lunar, positions) ==
    LET p3 == positions[3]
        p4 == positions[4]
    IN  IF ~lunar THEN night_test(r, w, v, positions[3], positions[4])
        ELSE IF p3.err # "none" THEN Raised(r, p3.err, "sun_position")
        ELSE IF p3.val = I(100) THEN ReturnLunar(See(r, p3.val), v)
        ELSE IF p4.err # "none" THEN Raised(See(r, p3.val), p4.err, "sun_position")
        ELSE IF p4.val = I(-1) THEN ReturnLunar(See(See(r, p3.val), p4.val), v)
        ELSE night_test(See(See(r, p3.val), p4.val), w, v, positions[5], positions[6])

\* BoktaiSim.value, classes.py 531-562: the read that ends, given the session's
\* version and lunar mode, the four draws, and positions[k], what the read's
\* k-th access of weather.sun_position returns if the read gets that far.  The
\* second access is the f-string of the debug line 548.
value(w, v, lunar, positions, tT, tW, sample, rnd) ==
    LET r1 == signals(w, positions[1], tT, tW, sample, rnd)
        p2 == positions[2]
    IN  IF r1.status = "raised" THEN r1
        ELSE IF p2.err # "none" THEN Raised(r1, p2.err, "sun_position")
        ELSE lunar_test(See(r1, p2.val), w, v, lunar, positions)

\* weather.sun_position accessed six times, the clock showing clocks[k] at the
\* k-th access
Accesses(w, clocks) ==
    <<sun_position(w, clocks[1]), sun_position(w, clocks[2]), sun_position(w, clocks[3]),
      sun_position(w, clocks[4]), sun_position(w, clocks[5]), sun_position(w, clocks[6])>>

\* the clock standing still over n accesses
Frozen(clock, n) == [k \in 1 .. n |-> clock]

\* a read of BoktaiSim.value (by _update_bar, gui.py 1247, or by any caller)
Value ==
    /\ pc = "idle"
    /\ \E positions \in {Accesses(weather, Frozen(now, 6))} :
       \E tT \in current_temp(weather), tW \in current_temp(weather),
          sample \in BetaSamples, rnd \in random_weather_value(weather) :
          rd' = value(weather, version, lunar_mode, positions, tT, tW, sample, rnd)
    /\ pc' = "done"
    /\ UNCHANGED <<gui, weather, now, version, lunar_mode, sun, given, call>>

\* the read has returned or raised: control is back with the caller
ReturnToCaller ==
    /\ pc = "done"
    /\ pc' = "idle"
    /\ rd' = NoRead
    /\ sun' = NoSun
    /\ UNCHANGED <<gui, weather, now, version, lunar_mode, given, call>>

----------------------------------------------------------------------------
(* The clock and the session's setters *)

\* sunrise of every modelled day: one second after the clock's origin
Sunrise == TicksPerSecond

\* The instants at which the clock is looked at, relative to the observation's
\* day: one second before sunrise, sunrise, one second after it, the middle of
\* the day, one second before sunset, sunset, one second after it.
Instants(w) ==
    {w.sunrise - TicksPerSecond, w.sunrise, w.sunrise + TicksPerSecond,
     w.sunrise + (w.sunset - w.sunrise) \div 2,
     w.sunset - TicksPerSecond, w.sunset, w.sunset + TicksPerSecond}

Later(w, clock) == {t \in Instants(w) : t > clock}

\* time passes between two operations, up to the next instant
Tick ==
    /\ pc = "idle"
    /\ Later(weather, now) # {}
    /\ now' = CHOOSE t \in Later(weather, now) : \A u \in Later(weather, now) : t <= u
    /\ UNCHANGED <<gui, weather, version, lunar_mode, pc, rd, sun, given, call>>

\* BoktaiSim.version's setter, classes.py 422-429 (no parent): a value outside
\* 1..3 fails its assertion and changes nothing
SetVersion ==
    /\ pc = "idle"
    /\ \E new \in 0 .. 4 : version' = IF 0 < new /\ new < 4 THEN new ELSE version
    /\ UNCHANGED <<gui, weather, now, lunar_mode, pc, rd, sun, given, call>>

\* BoktaiSim.lunar_mode's setter, classes.py 437-442 (no parent)
SetLunarMode ==
    /\ pc = "idle"
    /\ \E new \in BOOLEAN : lunar_mode' = new
    /\ UNCHANGED <<gui, weather, now, version, pc, rd, sun, given, call>>

----------------------------------------------------------------------------
(* Spec: a gauge session over one observation, read again and again *)

\* lengths, in seconds, of the days of the sessions of Spec
DayLengths == {0, 20}

\* An observation as WeatherInfo.from_zip / from_latlong build it (any triple the
\* weather source may answer with), or as do_update builds a manual one
\* (gui.py 959-979: current = avg, min <= avg <= max), in a session of any
\* version and lunar mode; the clock starts one second before sunrise.
Init ==
    /\ \E min_temp \in Temps, max_temp \in Temps, the_temp \in Temps,
          code \in WeatherCodes, manual \in BOOLEAN, len \in DayLengths :
          /\ manual => (min_temp <= the_temp /\ the_temp <= max_temp)
          /\ weather = WeatherInfo(min_temp, max_temp, the_temp, code, Sunrise,
                                   Sunrise + len * TicksPerSecond,
                                   IF manual THEN the_temp ELSE NoAvg, manual, 0)
    /\ now = 0
    /\ version \in 1 .. 3
    /\ lunar_mode \in BOOLEAN
    /\ pc = "idle"
    /\ gui = NoGui
    /\ rd = NoRead
    /\ sun = NoSun
    /\ given = NoGiven
    /\ call = NoCall

Next ==
    \/ Tick
    \/ SetVersion
    \/ SetLunarMode
    \/ Value
    \/ ReturnToCaller

Spec == Init /\ [][Next]_vars

----------------------------------------------------------------------------
(* SpecScale: clamp_and_scale called on its own, classes.py 636-650 *)

Args == -1 .. MaxArg

\* a session that only matters for what it does not touch
DefaultWeather ==
    WeatherInfo(0, 1, 0, "c", Sunrise, Sunrise + 20 * TicksPerSecond, NoAvg, FALSE, 0)

InitScale ==
    /\ \E a \in Args, b \in Args, c \in Args, d \in Args, e \in Args :
          call = [NoCall EXCEPT !.args = <<a, b, c, d, e>>]
    /\ weather = DefaultWeather
    /\ now = 0
    /\ version = 1
    /\ lunar_mode = FALSE
    /\ pc = "idle"
    /\ gui = NoGui
    /\ rd = NoRead
    /\ sun = NoSun
    /\ given = NoGiven

\* clamp_and_scale(old_min_value, old_max_value, new_min_value, new_max_value, current_value)
ClampAndScale ==
    /\ ~call.made
    /\ call' = [call EXCEPT !.made = TRUE,
                            !.out = clamp_and_scale(I(call.args[1]), I(call.args[2]),
                                                    I(call.args[3]), I(call.args[4]),
                                                    I(call.args[5]))]
    /\ UNCHANGED <<gui, weather, now, version, lunar_mode, pc, rd, sun, given>>

\* the result of the call scaled back from the new range to the old one:
\* clamp_and_scale(new_min_value, new_max_value, old_min_value, old_max_value, result)
ScaleBack ==
    /\ call.made
    /\ call.out.err = "none"
    /\ ~call.inverted
    /\ call' = [call EXCEPT !.inverted = TRUE,
                            !.back = clamp_and_scale(I(call.args[3]), I(call.args[4]),
                                                     I(call.args[1]), I(call.args[2]),
                                                     call.out.val)]
    /\ UNCHANGED <<gui, weather, now, version, lunar_mode, pc, rd, sun, given>>

NextScale == ClampAndScale \/ ScaleBack

SpecScale == InitScale /\ [][NextScale]_vars

----------------------------------------------------------------------------
(* SpecWeather: an observation built and then updated, classes.py 154-215 *)

\* the weather codes the source answers with in SpecWeather
FetchCodes == {"c", "t"}

InitWeather ==
    /\ \E min_temp \in Temps, max_temp \in Temps, the_temp \in Temps,
          code \in FetchCodes, manual \in BOOLEAN :
          /\ weather = WeatherInfo(min_temp, max_temp, the_temp, code, Sunrise,
                                   Sunrise + 20 * TicksPerSecond,
                                   IF manual THEN the_temp ELSE NoAvg, manual, 0)
          /\ given = [op |-> "init", min_temp |-> min_temp, max_temp |-> max_temp,
                      current_temp |-> the_temp]
    /\ now = 0
    /\ version = 1
    /\ lunar_mode = FALSE
    /\ pc = "idle"
    /\ gui = NoGui
    /\ rd = NoRead
    /\ sun = NoSun
    /\ call = NoCall

\* update looking a manual observation up like any other
Update_fetching_manual ==
    /\ pc = "idle"
    /\ \E min_temp \in Temps, max_temp \in Temps, the_temp \in Temps, code \in FetchCodes :
          /\ weather' = Refreshed(weather, min_temp, max_temp, the_temp, code,
                                  weather.sunrise, weather.sunset, now)
          /\ given' = [op |-> "update", min_temp |-> min_temp,
                       max_temp |-> max_temp, current_temp |-> the_temp]
    /\ UNCHANGED <<gui, now, version, lunar_mode, pc, rd, sun, call>>

\* WeatherInfo.update, classes.py 195-215, completed: a manual observation only
\* notes the time; a looked-up one takes over what the weather source answers
Update ==
    /\ pc = "idle"
    /\ \/ /\ weather.manual
          /\ weather' = [weather EXCEPT !.last_update = now]
          /\ given' = [given EXCEPT !.op = "update"]
       \/ /\ ~weather.manual
          /\ \E min_temp \in Temps, max_temp \in Temps, the_temp \in Temps,
                code \in FetchCodes :
                /\ weather' = Refreshed(weather, min_temp, max_temp, the_temp, code,
                                        weather.sunrise, weather.sunset, now)
                /\ given' = [op |-> "update", min_temp |-> min_temp,
                             max_temp |-> max_temp, current_temp |-> the_temp]
    /\ UNCHANGED <<gui, now, version, lunar_mode, pc, rd, sun, call>>

\* WeatherInfo.update raising: the request fails (classes.py 199-200, nothing
\* assigned yet), or the answer lacks the_temp (classes.py 209, the bounds
\* already assigned)
UpdateFails ==
    /\ pc = "idle"
    /\ ~weather.manual
    /\ \/ /\ weather' = weather
          /\ given' = [given EXCEPT !.op = "failed"]
       \/ \E min_temp \in Temps, max_temp \in Temps, code \in FetchCodes :
             /\ weather' = [weather EXCEPT !.timestamp = now, !.weather_state = code,
                                           !.min_temp = min_temp, !.max_temp = max_temp]
             /\ given' = [op |-> "failed", min_temp |-> min_temp,
                          max_temp |-> max_temp, current_temp |-> weather.cur]
    /\ UNCHANGED <<gui, now, version, lunar_mode, pc, rd, sun, call>>

NextWeather ==
    \/ Tick
    \/ Update
    \/ UpdateFails

SpecWeather == InitWeather /\ [][NextWeather]_vars

----------------------------------------------------------------------------
(* SpecSun: the sun read off one observation, classes.py 239-267 *)

\* 99.9, the upper end of 'Descending'
DescendingTop == Q(999, 10)

\* WeatherInfo.sun_state, classes.py 259-267: each comparison chain accesses
\* sun_position once, at clocks[1], clocks[2], clocks[3]
sun_state(w, clocks) ==
    LET p1 == sun_position(w, clocks[1])
        p2 == sun_position(w, clocks[2])
        p3 == sun_position(w, clocks[3])
    IN  IF p1.err # "none" THEN [err |-> p1.err, seen |-> <<>>, out |-> "none"]
        ELSE IF QLe(I(0), p1.val) /\ QLe(p1.val, I(30))
        THEN [err |-> "none", seen |-> <<p1.val>>, out |-> "Rising"]
        ELSE IF p2.err # "none" THEN [err |-> p2.err, seen |-> <<p1.val>>, out |-> "none"]
        ELSE IF QLe(I(0), p2.val) /\ QLe(p2.val, I(70))
        THEN [err |-> "none", seen |-> <<p1.val, p2.val>>, out |-> "At Apex"]
        ELSE IF p3.err # "none"
        THEN [err |-> p3.err, seen |-> <<p1.val, p2.val>>, out |-> "none"]
        ELSE IF QLe(I(0), p3.val) /\ QLe(p3.val, DescendingTop)
        THEN [err |-> "none", seen |-> <<p1.val, p2.val, p3.val>>, out |-> "Descending"]
        ELSE [err |-> "none", seen |-> <<p1.val, p2.val, p3.val>>, out |-> "Moonlight"]

\* What the clock may show at n successive accesses that begin at `clock`: it
\* never runs backwards and moves on to a later instant at most MaxDrift times
Readings(w, clock, n) ==
    {c \in [1 .. n -> {clock} \cup Later(w, clock)] :
        /\ c[1] = clock
        /\ \A k \in 1 .. n - 1 : c[k] <= c[k + 1]
        /\ Cardinality({k \in 1 .. n - 1 : c[k] < c[k + 1]}) <= MaxDrift}

\* lengths, in ticks, of the days of SpecSun: no day, twenty seconds, twenty
\* seconds and a fraction, a hundred seconds, 2002 seconds
SunDays ==
    {0, 20 * TicksPerSecond, 20 * TicksPerSecond + 1, 100 * TicksPerSecond,
     2002 * TicksPerSecond}

InitSun ==
    /\ \E len \in SunDays :
          weather = WeatherInfo(0, 1, 0, "c", Sunrise, Sunrise + len, NoAvg, FALSE, 0)
    /\ now = 0
    /\ version = 1
    /\ lunar_mode = FALSE
    /\ pc = "idle"
    /\ gui = NoGui
    /\ rd = NoRead
    /\ sun = NoSun
    /\ given = NoGiven
    /\ call = NoCall

\* one access of WeatherInfo.sun_position
SunPosition ==
    /\ pc = "idle"
    /\ sun' = [op |-> "sun_position", err |-> sun_position(weather, now).err,
               clocks |-> <<now>>, seen |-> <<sun_position(weather, now).val>>,
               out |-> "none"]
    /\ pc' = "done"
    /\ UNCHANGED <<gui, weather, now, version, lunar_mode, rd, given, call>>

\* one read of WeatherInfo.sun_state, the clock running on meanwhile
SunState ==
    /\ pc = "idle"
    /\ \E clocks \in Readings(weather, now, 3) :
          /\ sun' = [op |-> "sun_state", err |-> sun_state(weather, clocks).err,
                     clocks |-> clocks, seen |-> sun_state(weather, clocks).seen,
                     out |-> sun_state(weather, clocks).out]
          /\ now' = clocks[3]
    /\ pc' = "done"
    /\ UNCHANGED <<gui, weather, version, lunar_mode, rd, given, call>>

NextSun ==
    \/ Tick
    \/ SunPosition
    \/ SunState
    \/ ReturnToCaller

SpecSun == InitSun /\ [][NextSun]_vars

----------------------------------------------------------------------------
(* SpecSunValue: _calulate_sun_value called on its own, classes.py 460-497 *)

\* the positions handed to _calulate_sun_value: night (-1, 100), the edges of
\* the day and of the suppressed zone, positions off the whole numbers
Positions ==
    {I(-1), I(0), Q(1, 20), I(5), I(6), I(30), I(50), I(70), I(94), I(95),
     Q(1999, 20), I(100)}

\* the alpha and beta bounds handed to it: the defaults 225 and 550, in any order
ShapeBounds == {225, 550}

NoSunValue == [err |-> "none", val |-> NaV, alpha |-> NaV, beta |-> NaV, drew |-> FALSE]

InitSunValue ==
    /\ \E position \in Positions, alpha_min \in ShapeBounds, alpha_max \in ShapeBounds,
          beta_min \in ShapeBounds, beta_max \in ShapeBounds, sample \in BetaSamples :
          call = [made |-> FALSE,
                  args |-> <<position, alpha_min, alpha_max, beta_min, beta_max, sample>>,
                  out |-> NoSunValue, twin |-> NoSunValue]
    /\ weather = DefaultWeather
    /\ now = 0
    /\ version = 1
    /\ lunar_mode = FALSE
    /\ pc = "idle"
    /\ gui = NoGui
    /\ rd = NoRead
    /\ sun = NoSun
    /\ given = NoGiven

\* _calulate_sun_value(position, ...), and the same call for the position
\* mirrored at noon, 100 - position, with the same draw
CalculateSunValue ==
    /\ ~call.made
    /\ call' = [call EXCEPT
                  !.made = TRUE,
                  !.out = _calulate_sun_value(call.args[1], call.args[2], call.args[3],
                                              call.args[4], call.args[5], call.args[6]),
                  !.twin = _calulate_sun_value(QSub(I(100), call.args[1]), call.args[2],
                                               call.args[3], call.args[4], call.args[5],
                                               call.args[6])]
    /\ UNCHANGED <<gui, weather, now, version, lunar_mode, pc, rd, sun, given>>

NextSunValue == CalculateSunValue

SpecSunValue == InitSunValue /\ [][NextSunValue]_vars

----------------------------------------------------------------------------
(* SpecTemp: current_temp read again and again, classes.py 328-332 *)

\* how many of the latest reads of current_temp are remembered
MaxReads == 2

\* one read of WeatherInfo.current_temp; rd.temps keeps what the latest
\* MaxReads reads returned
ReadCurrentTemp ==
    /\ pc = "idle"
    /\ \E t \in current_temp(weather) :
          rd' = [rd EXCEPT !.temps = IF Len(rd.temps) < MaxReads THEN Append(rd.temps, t)
                                     ELSE Append(Tail(rd.temps), t)]
    /\ UNCHANGED <<gui, weather, now, version, lunar_mode, pc, sun, given, call>>

NextTemp ==
    \/ Tick
    \/ ReadCurrentTemp

SpecTemp == InitWeather /\ [][NextTemp]_vars

----------------------------------------------------------------------------
(* SpecGui: WindowManager.do_update, gui.py 859-1024, over the cache of     *)
(* sessions _sim_dict                                                       *)

\* the seconds the clock of SpecGui runs for, and config.api_update_interval
\* in seconds
MaxWait == 3
ApiUpdateInterval == 2

\* what the version combo may hold when do_update reads it
VersionEntries == {0, 1}

\* the texts of the zipcode entry, and pyzipcode's database
ZipEntries == {"", "00000", "10001"}
IsInt(text) == text \in {"00000", "10001"}
ZipCodeDatabase == [z \in {"10001"} |-> "0,0"]

\* the texts of the latitude and longitude entries, and float() of them
LatLonEntries == {<<"0", "0">>, <<"95", "0">>, <<"0", "200">>, <<"x", "0">>}
FloatOf == [t \in {"0", "95", "200"} |-> IF t = "0" THEN 0 ELSE IF t = "95" THEN 95 ELSE 200]
IsFloat(text) == text \in DOMAIN FloatOf

\* check_latlong, classes.py 658-663
check_latlong(lat, lon) ==
    IF ~(-90 <= lat /\ lat <= 90) THEN FALSE
    ELSE IF ~(-180 <= lon /\ lon <= 180) THEN FALSE
    ELSE TRUE

\* what the weather source does with a request: it answers with a location's
\* observation, it answers with no location at all, or it cannot be reached
Answers == {"found", "nothing", "down"}

\* the observation the weather source answers with, taken at `clock`
Observed(clock) ==
    WeatherInfo(0, 2, 1, "c", Sunrise, Sunrise + 20 * TicksPerSecond, NoAvg, FALSE, clock)

\* WeatherInfo.data_age, classes.py 269-270
data_age(w, clock) == Seconds(clock - w.last_update)

\* do_update leaving with a warning, self.alert('warning', msg)
Alert(g, request, msg) == [g EXCEPT !.alert = msg, !.request = request]

\* the exception of a failed lookup that do_update does not catch
Uncaught(g, request, e) == [g EXCEPT !.alert = "none", !.request = [request EXCEPT !.raised = e]]

\* a failed request that still stamps last_refreshed
update_request_fails_stamped(w, clock) == [w EXCEPT !.last_update = clock]

\* WeatherInfo.update of a looked-up observation whose request fails,
\* classes.py 199-200: requests.get or .json() raises before the first
\* assignment of line 201, so the observation is left as it was
update_request_fails(w, clock) == w

\* lookup refreshing an observation already when its age is the interval
lookup_refreshing_at_interval(g, request, latlong, answer, clock) ==
    LET req == [request EXCEPT !.latlong = latlong]
        cached == g.sim_dict[latlong]
        stale == data_age(cached.weather, clock) >= ApiUpdateInterval
        taken == [g EXCEPT !.boktaisim = latlong]
    IN  IF ~cached.present
        THEN IF answer = "down"
             THEN Alert(g, [req EXCEPT !.resolved = TRUE], "Can not connect to API!")
             ELSE IF answer = "nothing"
             THEN Uncaught(g, [req EXCEPT !.resolved = TRUE], "IndexError")
             ELSE [g EXCEPT !.boktaisim = latlong,
                            !.sim_dict[latlong] = Session(Observed(clock)),
                            !.alert = "none",
                            !.request = [req EXCEPT !.resolved = TRUE]]
        ELSE IF ~stale THEN [taken EXCEPT !.alert = "none", !.request = req]
        ELSE IF answer # "found"
        THEN Alert([taken EXCEPT !.sim_dict[latlong].weather =
                                     update_request_fails(cached.weather, clock)],
                   [req EXCEPT !.refreshed = TRUE], "Can not connect to API!")
        ELSE [taken EXCEPT
                !.sim_dict[latlong] =
                    Session(Refreshed(cached.weather, 0, 2, 1, "c", cached.weather.sunrise,
                                      cached.weather.sunset, clock)),
                !.alert = "none",
                !.request = [req EXCEPT !.refreshed = TRUE]]

\* gui.py 982-1024 for the Zipcode and Lat/Lon tabs: the session of latlong is
\* made and stored when the cache has none, else taken from the cache and
\* updated when its data is older than the API update interval
lookup(g, request, latlong, answer, clock) ==
    LET req == [request EXCEPT !.latlong = latlong]
        cached == g.sim_dict[latlong]
        stale == data_age(cached.weather, clock) > ApiUpdateInterval
        taken == [g EXCEPT !.boktaisim = latlong]
    IN  IF ~cached.present
        THEN IF answer = "down"
             THEN Alert(g, [req EXCEPT !.resolved = TRUE], "Can not connect to API!")
             ELSE IF answer = "nothing"
             THEN Uncaught(g, [req EXCEPT !.resolved = TRUE], "IndexError")
             ELSE [g EXCEPT !.boktaisim = latlong,
                            !.sim_dict[latlong] = Session(Observed(clock)),
                            !.alert = "none",
                            !.request = [req EXCEPT !.resolved = TRUE]]
        ELSE IF ~stale THEN [taken EXCEPT !.alert = "none", !.request = req]
        ELSE IF answer # "found"
        THEN Alert([taken EXCEPT !.sim_dict[latlong].weather =
                                     update_request_fails(cached.weather, clock)],
                   [req EXCEPT !.refreshed = TRUE], "Can not connect to API!")
        ELSE [taken EXCEPT
                !.sim_dict[latlong] =
                    Session(Refreshed(cached.weather, 0, 2, 1, "c", cached.weather.sunrise,
                                      cached.weather.sunset, clock)),
                !.alert = "none",
                !.request = [req EXCEPT !.refreshed = TRUE]]

\* gui.py 880-892: the Zipcode tab
zipcode_tab(g, entry, answer, clock) ==
    LET request == [NoRequest EXCEPT !.tab = "Zipcode"]
    IN  IF ~IsInt(entry) THEN Alert(g, request, "No zipcode provided.")
        ELSE IF entry \notin DOMAIN ZipCodeDatabase
        THEN Alert(g, request, "Invalid zipcode provided.")
        ELSE lookup(g, request, ZipCodeDatabase[entry], answer, clock)

\* gui.py 893-902: the Lat/Lon tab
latlon_tab(g, lat, lon, answer, clock) ==
    LET request == [NoRequest EXCEPT !.tab = "Lat/Lon", !.lat = lat, !.lon = lon]
    IN  IF ~(IsFloat(lat) /\ IsFloat(lon))
        THEN Alert(g, request, "Invalid latitude and longitude provided.")
        ELSE lookup(g, request, lat \o "," \o lon, answer, clock)

\* gui.py 867-870: the version of the combo is stored, then checked
VersionRejected(g) ==
    Alert(g, NoRequest, "Boktai version must be between 1 and 3.")

\* whether lookup asks the weather source anything: it resolves a location
\* that has no session, and refreshes an observation that is stale
asks(g, latlong, clock) ==
    \/ ~g.sim_dict[latlong].present
    \/ data_age(g.sim_dict[latlong].weather, clock) > ApiUpdateInterval

\* the answers a do_update may get: none when it asks nothing
AnswersTo(asked) == IF asked THEN Answers ELSE {"unasked"}

\* do_update with the Zipcode tab selected
DoUpdateZipcode ==
    /\ pc = "idle"
    /\ \E new \in VersionEntries :
          /\ version' = new
          /\ IF ~(0 < new /\ new < 4) THEN gui' = VersionRejected(gui)
             ELSE \E entry \in ZipEntries :
                     \E answer \in AnswersTo(/\ IsInt(entry)
                                             /\ entry \in DOMAIN ZipCodeDatabase
                                             /\ asks(gui, ZipCodeDatabase[entry], now)) :
                        gui' = zipcode_tab(gui, entry, answer, now)
    /\ UNCHANGED <<weather, now, lunar_mode, pc, rd, sun, given, call>>

\* do_update with the Lat/Lon tab selected
DoUpdateLatLon ==
    /\ pc = "idle"
    /\ \E new \in VersionEntries :
          /\ version' = new
          /\ IF ~(0 < new /\ new < 4) THEN gui' = VersionRejected(gui)
             ELSE \E entry \in LatLonEntries :
                     \E answer \in AnswersTo(/\ IsFloat(entry[1])
                                             /\ IsFloat(entry[2])
                                             /\ asks(gui, entry[1] \o "," \o entry[2], now)) :
                        gui' = latlon_tab(gui, entry[1], entry[2], answer, now)
    /\ UNCHANGED <<weather, now, lunar_mode, pc, rd, sun, given, call>>

\* f_to_c and c_to_f, classes.py 618-625
f_to_c(fahrenheit) == QDiv(QMul(QSub(fahrenheit, I(32)), I(5)), I(9))
c_to_f(celsius) == QAdd(QDiv(QMul(celsius, I(9)), I(5)), I(32))

\* round(f_to_c(f), 2), in units of 0.01 degree
RoundedCelsius(f) == Round(QMul(f_to_c(f), I(100)))

\* WEATHER_STATES_REVERSE, constants.py 112-123: the names of the option menu
WEATHER_STATES_REVERSE == [name \in {"Clear"} |-> "c"]

\* current_datetime.replace(hour=h, minute=m), the clock counting from midnight
TimeOfDay(time, clock) ==
    (time[1] * 3600 + time[2] * 60) * TicksPerSecond + (clock % (60 * TicksPerSecond))

\* A form that passes every check in either scale, one whose sunset is its
\* sunrise, and forms that fail one check or two
ManualForms ==
    { Form(TRUE, TRUE, "F", <<32, 50, 68>>, "Clear", TRUE, <<0, 2>>),
      Form(TRUE, TRUE, "C", <<32, 50, 68>>, "Clear", TRUE, <<0, 1>>),
      Form(FALSE, TRUE, "F", <<32, 50, 68>>, "Clear", TRUE, <<0, 2>>),
      Form(TRUE, FALSE, "F", <<32, 50, 68>>, "Clear", TRUE, <<0, 2>>),
      Form(TRUE, TRUE, "F", <<10, 5, 20>>, "Clear", TRUE, <<0, 2>>),
      Form(TRUE, TRUE, "C", <<10, 5, 20>>, "Clear", TRUE, <<0, 0>>),
      Form(TRUE, TRUE, "F", <<32, 50, 68>>, "", TRUE, <<0, 2>>),
      Form(TRUE, TRUE, "F", <<32, 50, 68>>, "Clear", FALSE, <<0, 2>>),
      Form(TRUE, TRUE, "F", <<32, 50, 68>>, "Clear", TRUE, <<0, 0>>) }

\* config.min_f, config.avg_f, config.max_f of the form, gui.py 909-926
ConfigTemps(form) ==
    IF form.scale = "C"
    THEN <<c_to_f(I(form.temps[1])), c_to_f(I(form.temps[2])), c_to_f(I(form.temps[3]))>>
    ELSE <<I(form.temps[1]), I(form.temps[2]), I(form.temps[3])>>

\* gui.py 954-979: the observation made from an accepted form
ManualWeather(form, clock) ==
    LET f == ConfigTemps(form)
    IN  WeatherInfo(RoundedCelsius(f[1]), RoundedCelsius(f[3]), RoundedCelsius(f[2]),
                    WEATHER_STATES_REVERSE[form.state], TimeOfDay(form.sunrise, clock),
                    TimeOfDay(form.sunset, clock), RoundedCelsius(f[2]), TRUE, clock)

\* the Manual tab without the check of the temperatures
manual_tab_any_temps(g, form, clock) ==
    LET request == [NoRequest EXCEPT !.tab = "Manual", !.form = form]
    IN  IF ~form.filled
        THEN Alert(g, request, "All fields must be filled when in Manual mode!")
        ELSE IF ~form.numeric
        THEN Alert(g, request, "Temperature range values must be whole or decimal numbers.")
        ELSE IF form.state \notin DOMAIN WEATHER_STATES_REVERSE
        THEN Alert(g, request, "Invalid weather state provided.")
        ELSE IF ~form.times
        THEN Alert(g, request, "Invalid time provided")
        ELSE IF TimeOfDay(form.sunset, clock) < TimeOfDay(form.sunrise, clock)
        THEN Alert(g, request, "Sunset must come after sunrise.")
        ELSE [g EXCEPT !.boktaisim = "manual",
                       !.sim_dict["manual"] = Session(ManualWeather(form, clock)),
                       !.alert = "none",
                       !.request = [request EXCEPT !.latlong = "manual"]]

\* gui.py 903-980 and 1009-1011: the Manual tab. Every check answers with a
\* warning and returns; a form that passes them all becomes a new session,
\* stored under 'manual'.
manual_tab(g, form, clock) ==
    LET request == [NoRequest EXCEPT !.tab = "Manual", !.form = form]
        f == ConfigTemps(form)
    IN  IF ~form.filled
        THEN Alert(g, request, "All fields must be filled when in Manual mode!")
        ELSE IF ~form.numeric
        THEN Alert(g, request, "Temperature range values must be whole or decimal numbers.")
        ELSE IF ~(QLe(f[1], f[2]) /\ QLe(f[2], f[3]))
        THEN Alert(g, request, "Temperature values do not make sense!")
        ELSE IF form.state \notin DOMAIN WEATHER_STATES_REVERSE
        THEN Alert(g, request, "Invalid weather state provided.")
        ELSE IF ~form.times
        THEN Alert(g, request, "Invalid time provided")
        ELSE IF TimeOfDay(form.sunset, clock) < TimeOfDay(form.sunrise, clock)
        THEN Alert(g, request, "Sunset must come after sunrise.")
        ELSE [g EXCEPT !.boktaisim = "manual",
                       !.sim_dict["manual"] = Session(ManualWeather(form, clock)),
                       !.alert = "none",
                       !.request = [request EXCEPT !.latlong = "manual"]]

\* do_update with the Manual tab selected
DoUpdateManual ==
    /\ pc = "idle"
    /\ \E new \in VersionEntries :
          /\ version' = new
          /\ IF ~(0 < new /\ new < 4) THEN gui' = VersionRejected(gui)
             ELSE \E form \in ManualForms : gui' = manual_tab(gui, form, now)
    /\ UNCHANGED <<weather, now, lunar_mode, pc, rd, sun, given, call>>

\* time passes, one tick of the clock at a time
Wait ==
    /\ pc = "idle"
    /\ now < MaxWait * TicksPerSecond
    /\ now' = now + 1
    /\ UNCHANGED <<gui, weather, version, lunar_mode, pc, rd, sun, given, call>>

InitGui ==
    /\ weather = DefaultWeather
    /\ now = 0
    /\ version = 1
    /\ lunar_mode = FALSE
    /\ pc = "idle"
    /\ gui = NoGui
    /\ rd = NoRead
    /\ sun = NoSun
    /\ given = NoGiven
    /\ call = NoCall

\* do_update requests for looked-up locations, by zipcode or by coordinates
NextGui == DoUpdateZipcode \/ DoUpdateLatLon \/ Wait

SpecGui == InitGui /\ [][NextGui]_vars

\* do_update requests from the Manual tab, and by zipcode
NextManual == DoUpdateManual \/ DoUpdateZipcode \/ Wait

SpecManual == InitGui /\ [][NextManual]_vars

----------------------------------------------------------------------------
(* SpecBar: the whole of do_update for the Manual tab, with the labels and  *)
(* the bar of gui.py 1025-1098, timed_update and _resize_window             *)

\* BOKTAI_METER, constants.py 160-198: the pixel offset of each bar of each
\* version's meter
BOKTAI_METER ==
    <<[k \in 0 .. 8 |-> IF k = 0 THEN 0 ELSE 50 + 27 * k],
      [k \in 0 .. 10 |-> IF k = 0 THEN 0 ELSE IF k = 10 THEN 275 ELSE 3 + 27 * k],
      [k \in 0 .. 10 |-> IF k = 0 THEN 0 ELSE IF k = 10 THEN 275 ELSE 3 + 27 * k]>>

\* what the version combo may hold in SpecBar
BarVersions == {0, 1, 3}

\* The Manual tab in SpecBar: a day that begins in the minute of the clock and
\* lasts two minutes, with temperatures 32, 50, 68 or with min = avg = max; a
\* day whose sunset is its sunrise; and a form that is rejected
BarForms ==
    { [Form(TRUE, TRUE, "F", <<32, 50, 68>>, "Clear", TRUE, <<0, 2>>) EXCEPT !.sunrise = <<0, 0>>],
      [Form(TRUE, TRUE, "F", <<50, 50, 50>>, "Clear", TRUE, <<0, 2>>) EXCEPT !.sunrise = <<0, 0>>],
      [Form(TRUE, TRUE, "F", <<32, 50, 68>>, "Clear", TRUE, <<0, 0>>) EXCEPT !.sunrise = <<0, 0>>],
      Form(TRUE, TRUE, "F", <<10, 5, 20>>, "Clear", TRUE, <<0, 2>>) }

\* The draws of one read of value in SpecBar, <<tT, tW, sample, rnd>>: every
\* source at its lowest, at its mode, at its highest
BarDraws(w) ==
    { <<w.min_temp, w.min_temp, Q(0, 1), I(weather_min(w))>>,
      <<w.avg_temp, w.avg_temp, Q(3, 10), I(weather_avg(w))>>,
      <<w.max_temp, w.max_temp, Q(1, 1), I(weather_max(w))>> }

\* an exception leaves do_update
Propagates(g, e) == [g EXCEPT !.request.raised = e]

\* _update_bar(True) at the end of do_update, gui.py 1218-1262: the bar is read
\* off the session and remembered, and its offset looked up in BOKTAI_METER;
\* read is how the read of boktaisim.value ends
update_bar_value(g, v, read) ==
    IF v \notin DOMAIN BOKTAI_METER THEN Propagates(g, "KeyError")
    ELSE IF read.status = "raised" THEN Propagates(g, read.err)
    ELSE IF read.result \notin DOMAIN BOKTAI_METER[v]
    THEN Propagates([g EXCEPT !.last_value = read.result], "KeyError")
    ELSE [g EXCEPT !.last_value = read.result]

\* gui.py 1025-1098, the end of a do_update that has its session: the labels
\* (state is what the session's sun_state gives for the image and the text),
\* then the bar
update_labels(g, v, state, read) ==
    IF state.err # "none" THEN Propagates(g, state.err) ELSE update_bar_value(g, v, read)

\* do_update from line 867 on with the Manual tab selected: the version of the
\* combo is already stored in config.version; state and read are what
\* sun_state and value of the new session give if do_update gets that far
do_update(g, new, form, clock, state, read) ==
    IF ~(0 < new /\ new < 4) THEN VersionRejected(g)
    ELSE IF manual_tab(g, form, clock).alert # "none" THEN manual_tab(g, form, clock)
    ELSE update_labels(manual_tab(g, form, clock), new, state, read)

\* timed_update, gui.py 1105-1108: do_update, and when it returns the next
\* timed_update is scheduled
timed_update(g, new, form, clock, state, read) ==
    IF do_update(g, new, form, clock, state, read).request.raised # "none"
    THEN do_update(g, new, form, clock, state, read)
    ELSE [do_update(g, new, form, clock, state, read) EXCEPT !.timers = @ + 1]

\* the draws matter to a do_update only when it gets as far as the bar
DrawsFor(g, new, form, clock) ==
    IF ~(0 < new /\ new < 4) \/ manual_tab(g, form, clock).alert # "none"
    THEN {<<0, 0, Q(0, 1), I(0)>>}
    ELSE BarDraws(ManualWeather(form, clock))

\* do_update as the Generate button or the Return key calls it, gui.py 859-1098:
\* the first call is handed to timed_update
DoUpdate ==
    /\ pc = "idle"
    /\ \E new \in BarVersions, form \in BarForms :
       \E w \in {ManualWeather(form, now)}, draw \in DrawsFor(gui, new, form, now) :
       \E positions \in {Accesses(w, Frozen(now, 6))}, state \in {sun_state(w, Frozen(now, 3))} :
       \E read \in {value(w, new, lunar_mode, positions, draw[1], draw[2], draw[3], draw[4])},
          g \in {[gui EXCEPT !.first_update = FALSE, !.resized = "none"]} :
          /\ version' = new
          /\ gui' = IF gui.first_update
                    THEN timed_update(g, new, form, now, state, read)
                    ELSE do_update(g, new, form, now, state, read)
    /\ UNCHANGED <<weather, now, lunar_mode, pc, rd, sun, given, call>>

\* a pending timed_update is called by the event loop
TimedUpdate ==
    /\ pc = "idle"
    /\ gui.timers > 0
    /\ \E new \in BarVersions, form \in BarForms :
       \E w \in {ManualWeather(form, now)}, draw \in DrawsFor(gui, new, form, now) :
       \E positions \in {Accesses(w, Frozen(now, 6))}, state \in {sun_state(w, Frozen(now, 3))} :
       \E read \in {value(w, new, lunar_mode, positions, draw[1], draw[2], draw[3], draw[4])},
          g \in {[gui EXCEPT !.timers = @ - 1, !.resized = "none"]} :
          /\ version' = new
          /\ gui' = timed_update(g, new, form, now, state, read)
    /\ UNCHANGED <<weather, now, lunar_mode, pc, rd, sun, given, call>>

\* _update_bar() as _resize_window calls it for a window of a new size,
\* gui.py 1293-1298 and 1218-1262: the remembered bar is drawn again
resize_window(g, v) ==
    IF v \notin DOMAIN BOKTAI_METER THEN [g EXCEPT !.resized = "KeyError"]
    ELSE IF g.boktaisim = "none" THEN [g EXCEPT !.resized = "returned"]
    ELSE IF g.last_value \notin DOMAIN BOKTAI_METER[v] THEN [g EXCEPT !.resized = "KeyError"]
    ELSE [g EXCEPT !.resized = "drawn"]

\* the window is resized
ResizeWindow ==
    /\ pc = "idle"
    /\ gui' = resize_window(gui, version)
    /\ UNCHANGED <<weather, now, version, lunar_mode, pc, rd, sun, given, call>>

InitBar ==
    /\ weather = DefaultWeather
    /\ now = 0
    /\ version \in {1, 3}
    /\ lunar_mode \in BOOLEAN
    /\ pc = "idle"
    /\ gui = NoGui
    /\ rd = NoRead
    /\ sun = NoSun
    /\ given = NoGiven
    /\ call = NoCall

NextBar == DoUpdate \/ TimedUpdate \/ ResizeWindow

SpecBar == InitBar /\ [][NextBar]_vars

----------------------------------------------------------------------------
(* SpecRace: reads of value while the clock runs on, classes.py 531-562 with  *)
(* sun_position's datetime.now of line 245 at every access                    *)

\* lengths, in ticks, of the days of SpecRace: twenty seconds, 2002 seconds
RaceDays == {20 * TicksPerSecond, 2002 * TicksPerSecond}

InitRace ==
    /\ \E len \in RaceDays :
          weather = WeatherInfo(0, 1, 1, "c", Sunrise, Sunrise + len, NoAvg, FALSE, 0)
    /\ now = 0
    /\ version = 3
    /\ lunar_mode \in BOOLEAN
    /\ pc = "idle"
    /\ gui = NoGui
    /\ rd = NoRead
    /\ sun = NoSun
    /\ given = NoGiven
    /\ call = NoCall

\* one read of BoktaiSim.value, the clock showing clocks[k] at its k-th access
\* of sun_position; sun keeps what sun_state gives at the instant the read
\* begins (the day phase the labels show, gui.py 1073)
RacingValue ==
    /\ pc = "idle"
    /\ \E clocks \in Readings(weather, now, 6) :
       \E positions \in {Accesses(weather, clocks)},
          state \in {sun_state(weather, Frozen(clocks[1], 3))} :
       \E tT \in current_temp(weather), tW \in current_temp(weather),
          sample \in BetaSamples, rnd \in random_weather_value(weather) :
          /\ rd' = value(weather, version, lunar_mode, positions, tT, tW, sample, rnd)
          /\ sun' = [op |-> "value", err |-> state.err, clocks |-> clocks,
                     seen |-> state.seen, out |-> state.out]
          /\ now' = clocks[6]
    /\ pc' = "done"
    /\ UNCHANGED <<gui, weather, version, lunar_mode, given, call>>

NextRace ==
    \/ Tick
    \/ RacingValue
    \/ ReturnToCaller

SpecRace == InitRace /\ [][NextRace]_vars

----------------------------------------------------------------------------
(* Properties of a read of value, checked under Spec *)

\* a read of value has ended and control is not yet back with the caller
ReadEnded == pc = "done" /\ rd.status \in {"returned", "raised"}

\* the highest bar of the session's gauge
TopBar == IF version = 1 THEN 8 ELSE 10

\* the integer k is q rounded as Python's round does: nearest, ties to even
IsRounded(k, q) ==
    /\ 2 * Abs(k * q[2] - q[1]) <= q[2]
    /\ 2 * Abs(k * q[2] - q[1]) = q[2] => k % 2 = 0

\* the weighted average of the four signals of the read: weights 10, 20, 40, 25
WeightedAvg ==
    QDiv(QAdd(QAdd(QMul(I(10), rd.values.temperature), QMul(I(20), rd.values.weather)),
              QAdd(QMul(I(40), rd.values.sun_location), QMul(I(25), rd.values.random))),
         I(95))

\* v * 8/10 for a version 1 gauge, v itself for versions 2 and 3
Rescaled(v) == IF version = 1 THEN QDiv(QMul(v, I(8)), I(10)) ELSE v

Clamped(v) == IF QLt(v, I(0)) THEN I(0) ELSE IF QLt(I(10), v) THEN I(10) ELSE v

\* every position the read saw is a night position (100 or -1)
SawNight == rd.seen # <<>> /\ \A k \in DOMAIN rd.seen : rd.seen[k] \in {I(100), I(-1)}

\* every position the read saw is a daytime position
SawDay == rd.seen # <<>> /\ \A k \in DOMAIN rd.seen : rd.seen[k] \notin {I(100), I(-1)}

\* the temperatures the read was given lie within the observation's bounds
TempsInside ==
    \A k \in DOMAIN rd.temps :
        weather.min_temp <= rd.temps[k] /\ rd.temps[k] <= weather.max_temp

C2_NightReturnsZero ==
    (ReadEnded /\ ~lunar_mode /\ sun_position(weather, now).err = "none"
        /\ sun_position(weather, now).val \in {I(100), I(-1)})
    => (rd.status = "returned" /\ rd.result = 0)

\* C3 as stated: at night in lunar mode the read returns
\* round(rescale(weighted_avg / 2)), and that is 0 only if weighted_avg is 0.
C3_LunarNeverZero ==
    (ReadEnded /\ rd.status = "returned" /\ lunar_mode /\ SawNight)
    => /\ IsRounded(rd.result, Rescaled(QDiv(WeightedAvg, I(2))))
       /\ rd.result = 0 => WeightedAvg = I(0)

\* C3 amended: at night in lunar mode a read whose signals were computed returns
\* round(rescale(weighted_avg / 2)), the weather modifier not applied; the
\* result is 0 exactly when rescale(weighted_avg / 2) is at most 1/2.
C3_LunarNight ==
    (ReadEnded /\ rd.status = "returned" /\ lunar_mode /\ SawNight)
    => /\ IsRounded(rd.result, Rescaled(QDiv(WeightedAvg, I(2))))
       /\ rd.result = 0 <=> QLe(Rescaled(QDiv(WeightedAvg, I(2))), Q(1, 2))

\* a lunar night read returned a bar although the weather modifier is not zero
C3_Witness ==
    /\ ReadEnded /\ rd.status = "returned" /\ lunar_mode /\ SawNight
    /\ rd.result > 0 /\ WEATHER_STATES[weather.weather_state].mod # 0

\* C4: by day (sun_position neither 100 nor -1) the read returns
\* round(rescale(clamp(weighted_avg + modifier, 0, 10))), weighted_avg being
\* (10 temperature + 20 weather + 40 sun_location + 25 random) / 95.
C4_DayValue ==
    (ReadEnded /\ rd.status = "returned" /\ SawDay)
    => IsRounded(rd.result,
                 Rescaled(Clamped(QAdd(WeightedAvg,
                                       I(WEATHER_STATES[weather.weather_state].mod)))))

\* a daytime read returned a bar strictly inside the gauge, modifier not zero
C4_Witness ==
    /\ ReadEnded /\ rd.status = "returned" /\ SawDay
    /\ WEATHER_STATES[weather.weather_state].mod # 0
    /\ 0 < rd.result /\ rd.result < TopBar

\* C5: the version rescale maps the clamped score v in [0, 10] to v * 8/10 for
\* version 1 (10 to 8, 0 to 0) and hands v back unchanged for versions 2 and 3.
C5_VersionRescale ==
    (ReadEnded /\ rd.status = "returned" /\ rd.branch \in {"day", "lunar"})
    => /\ QLe(I(0), rd.pre) /\ QLe(rd.pre, I(10))
       /\ version = 1 => QMul(rd.scaled, I(10)) = QMul(rd.pre, I(8))
       /\ version = 1 /\ rd.pre = I(10) => rd.scaled = I(8)
       /\ version = 1 /\ rd.pre = I(0) => rd.scaled = I(0)
       /\ version \in {2, 3} => rd.scaled = rd.pre

\* a version 1 read rescaled a score that is not a whole number
C5_Witness ==
    /\ ReadEnded /\ rd.status = "returned" /\ rd.branch = "day" /\ version = 1
    /\ rd.pre[2] # 1 /\ rd.scaled # rd.pre

----------------------------------------------------------------------------
(* Properties of clamp_and_scale, checked under SpecScale *)

\* C6 as stated: for old_min <= value <= old_max and new_min < new_max,
\* old_min = old_max included, clamp_and_scale returns a value within
\* [new_min, new_max].
C6_OutputWithinNewRange ==
    (call.made /\ call.args[1] <= call.args[5] /\ call.args[5] <= call.args[2]
        /\ call.args[3] < call.args[4])
    => /\ call.out.err = "none"
       /\ QLe(I(call.args[3]), call.out.val)
       /\ QLe(call.out.val, I(call.args[4]))

\* C7 as stated: clamp_and_scale fails exactly when value < old_min or
\* new_min >= new_max, by an assertion; a value above old_max never makes it
\* fail, the result then being new_max.
C7_FailsExactlyOnAssertions ==
    call.made
    => /\ call.out.err # "none" <=> (call.args[5] < call.args[1] \/ call.args[3] >= call.args[4])
       /\ call.out.err \in {"none", "AssertionError"}
       /\ (call.args[5] > call.args[2] /\ call.args[5] >= call.args[1]
              /\ call.args[3] < call.args[4])
          => (call.out.err = "none" /\ call.out.val = I(call.args[4]))

----------------------------------------------------------------------------
(* Properties of WeatherInfo, checked under SpecWeather *)

\* C8: after the construction of a WeatherInfo and after every completed
\* update, min_temp <= stored current temperature <= max_temp whatever triple
\* came in: the stored current temperature is the one that came in, and a bound
\* it exceeds is moved to it.
C8_BoundsHoldCurrent ==
    given.op \in {"init", "update"}
    => /\ weather.min_temp <= weather.cur /\ weather.cur <= weather.max_temp
       /\ weather.cur = given.current_temp
       /\ weather.min_temp = IF given.current_temp < given.min_temp
                             THEN given.current_temp ELSE given.min_temp
       /\ weather.max_temp = IF given.current_temp > given.max_temp
                             THEN given.current_temp ELSE given.max_temp

\* a completed update brought a current temperature above the max_temp it
\* came with, and the observation keeps it
C8_Witness ==
    /\ given.op = "update" /\ ~weather.manual
    /\ given.current_temp > given.max_temp /\ given.min_temp > given.max_temp
    /\ weather.cur = given.current_temp /\ weather.max_temp = given.current_temp

----------------------------------------------------------------------------
(* Properties of the sun of an observation, checked under SpecSun *)

\* an access of sun_position has ended
SunPositionRead == pc = "done" /\ sun.op = "sun_position"

\* the observation's daylight and the part of it elapsed at the access, in
\* whole seconds
DaylightSeconds == Seconds(weather.sunset - weather.sunrise)
ElapsedSeconds == DaylightSeconds - Seconds(weather.sunset - sun.clocks[1])

\* the position is the percentage of the daylight elapsed
IsPercentage(position) ==
    QMul(position, I(DaylightSeconds)) = I(100 * ElapsedSeconds)

\* C9 as stated: for sunrise < sunset, sun_position is the percentage of
\* daylight elapsed when now lies between sunrise and sunset, and -1 whenever
\* now lies before sunrise or after sunset.
C9_MinusOneOutsideDaylight ==
    (SunPositionRead /\ weather.sunrise < weather.sunset)
    => /\ sun.err = "none"
       /\ IF weather.sunrise <= sun.clocks[1] /\ sun.clocks[1] <= weather.sunset
          THEN IsPercentage(sun.seen[1])
          ELSE sun.seen[1] = I(-1)

\* C9 amended: for sunrise < sunset and in whole seconds, sun_position is the
\* percentage of daylight elapsed from sunrise to sunset (0 at sunrise, 100 at
\* sunset), -1 before sunrise, and 100 after sunset.
C9_SunPosition ==
    (SunPositionRead /\ weather.sunrise < weather.sunset /\ DaylightSeconds > 0)
    => /\ sun.err = "none"
       /\ ElapsedSeconds < 0 => sun.seen[1] = I(-1)
       /\ (0 <= ElapsedSeconds /\ ElapsedSeconds <= DaylightSeconds)
          => IsPercentage(sun.seen[1])
       /\ ElapsedSeconds = 0 => sun.seen[1] = I(0)
       /\ ElapsedSeconds >= DaylightSeconds => sun.seen[1] = I(100)

\* sun_position was accessed after sunset and answered 100
C9_Witness ==
    /\ SunPositionRead /\ weather.sunrise < weather.sunset
    /\ sun.clocks[1] > weather.sunset /\ ElapsedSeconds > DaylightSeconds
    /\ sun.seen[1] = I(100)

\* the label the thresholds of sun_state give a position
StateOf(position) ==
    IF QLe(I(0), position) /\ QLe(position, I(30)) THEN "Rising"
    ELSE IF QLt(I(30), position) /\ QLe(position, I(70)) THEN "At Apex"
    ELSE IF QLt(I(70), position) /\ QLe(position, DescendingTop) THEN "Descending"
    ELSE "Moonlight"

\* C10 as stated: sun_state is 'Rising' on [0, 30], 'At Apex' on (30, 70],
\* 'Descending' on (70, 99.9] and 'Moonlight' for every other position, which
\* is only 100 or -1 (the clock standing still during the read).
C10_MoonlightOnlyAtNight ==
    (pc = "done" /\ sun.op = "sun_state" /\ sun.err = "none"
        /\ \A k \in DOMAIN sun.clocks : sun.clocks[k] = sun.clocks[1])
    => /\ sun.out = StateOf(sun.seen[1])
       /\ sun.out = "Moonlight" => sun.seen[1] \in {I(100), I(-1)}

----------------------------------------------------------------------------
(* Properties of _calulate_sun_value, checked under SpecSunValue *)

\* the position handed in, and the position after the mirroring at noon
SunValuePosition == call.args[1]
MirroredPosition ==
    IF QLt(I(50), call.args[1]) THEN QSub(I(100), call.args[1]) ELSE call.args[1]

\* the draw of the Beta sample, scaled to [0, 10]
ScaledSample == QMul(call.args[6], I(10))

\* C11: _calulate_sun_value returns 0 for position 100 and for position -1 in
\* every call, without drawing from the random source, whatever alpha and beta
\* bounds are passed.
C11_NightSunValueIsZero ==
    (call.made /\ SunValuePosition \in {I(100), I(-1)})
    => (call.out.err = "none" /\ call.out.val = I(0) /\ ~call.out.drew)

\* position -1 was handed in with bounds that are not the defaults
C11_Witness ==
    /\ call.made /\ SunValuePosition = I(-1)
    /\ call.args[2] > call.args[3] /\ call.args[4] < call.args[5]
    /\ call.out.val = I(0) /\ ~call.out.drew

\* C12 as stated: for every position p in [0, 100], p and 100 - p give the
\* same alpha, the same beta and the same edge-suppression decision.
C12_MirrorEverywhere ==
    (call.made /\ QLe(I(0), SunValuePosition) /\ QLe(SunValuePosition, I(100)))
    => /\ call.out.err = call.twin.err
       /\ call.out.drew = call.twin.drew
       /\ call.out.alpha = call.twin.alpha
       /\ call.out.beta = call.twin.beta
       /\ call.out.val = call.twin.val

\* C12 amended: for every position p strictly between 0 and 100, p and
\* 100 - p give the same alpha, the same beta and, for the same draw, the same
\* edge-suppression decision and so the same value.
C12_MirrorInsideDay ==
    (call.made /\ QLt(I(0), SunValuePosition) /\ QLt(SunValuePosition, I(100)))
    => /\ call.out.err = "none" /\ call.twin.err = "none"
       /\ call.out.drew /\ call.twin.drew
       /\ call.out.alpha = call.twin.alpha
       /\ call.out.beta = call.twin.beta
       /\ call.out.val = call.twin.val

\* an afternoon position in the suppressed zone lost 2, as its morning twin did
C12_Witness ==
    /\ call.made /\ SunValuePosition = I(95) /\ call.args[2] < call.args[3]
    /\ call.out.val = QSub(ScaledSample, I(2)) /\ call.twin.val = call.out.val
    /\ call.out.alpha = call.twin.alpha

\* C13: for every position in [0, 100) and every Beta sample in [0, 1],
\* _calulate_sun_value returns a value in [0, 10]; when the mirrored position
\* is at most 5, a scaled sample above 2 is reduced by 2, so that the result
\* is at most 8 there and never negative.
C13_SunValueRange ==
    (call.made /\ QLe(I(0), SunValuePosition) /\ QLt(SunValuePosition, I(100)))
    => /\ call.out.err = "none"
       /\ QLe(I(0), call.out.val) /\ QLe(call.out.val, I(10))
       /\ QLe(MirroredPosition, I(5))
          => /\ QLe(call.out.val, I(8))
             /\ call.out.val = IF QLt(I(2), ScaledSample)
                               THEN QSub(ScaledSample, I(2)) ELSE ScaledSample
       /\ ~QLe(MirroredPosition, I(5)) => call.out.val = ScaledSample

\* the highest sample drawn at the edge of the day came out as 8
C13_Witness ==
    /\ call.made /\ SunValuePosition = Q(1999, 20) /\ ScaledSample = I(10)
    /\ call.out.val = I(8)

\* the call was made with the default bounds 225, 550, 225, 225
DefaultBounds ==
    call.args[2] = 225 /\ call.args[3] = 550 /\ call.args[4] = 225 /\ call.args[5] = 225

\* C14 as stated: with the default bounds alpha is the position remapped from
\* [0, 100] onto [225, 550] and divided by 100, so alpha ranges over
\* [2.25, 5.5] as the position ranges over the day, and beta is 2.25.
C14_AlphaFromPosition ==
    (call.made /\ DefaultBounds /\ QLe(I(0), SunValuePosition)
        /\ QLt(SunValuePosition, I(100)))
    => /\ call.out.err = "none"
       /\ QMul(call.out.alpha, I(100))
             = QAdd(I(225), QDiv(QMul(SunValuePosition, I(550 - 225)), I(100)))
       /\ call.out.beta = Q(225, 100)

\* C14 amended: with the default bounds alpha is the mirrored position
\* remapped from [0, 100] onto [225, 550] and divided by 100; the mirrored
\* position is at most 50, so alpha ranges over [2.25, 3.875]; beta is 2.25.
C14_AlphaFromMirroredPosition ==
    (call.made /\ DefaultBounds /\ QLe(I(0), SunValuePosition)
        /\ QLt(SunValuePosition, I(100)))
    => /\ call.out.err = "none"
       /\ QMul(call.out.alpha, I(100))
             = QAdd(I(225), QDiv(QMul(MirroredPosition, I(550 - 225)), I(100)))
       /\ QLe(Q(225, 100), call.out.alpha) /\ QLe(call.out.alpha, Q(3875, 1000))
       /\ call.out.beta = Q(225, 100)

\* at noon alpha is 3.875, the most it gets
C14_Witness ==
    /\ call.made /\ DefaultBounds /\ SunValuePosition = I(50)
    /\ call.out.alpha = Q(3875, 1000) /\ call.out.beta = Q(225, 100)

----------------------------------------------------------------------------
(* Properties of the random sources of a read of value, checked under Spec *)

\* C15 as stated: a read of value polls each random source only once: one
\* sun-value draw, one random-weather draw and, for a manual observation, one
\* draw of the randomized current temperature, which both temperature_value and
\* weather_value use.
C15_EachSourcePolledOnce ==
    (ReadEnded /\ rd.status = "returned")
    => /\ rd.draws.sun <= 1
       /\ rd.draws.weather = 1
       /\ weather.manual => (rd.draws.temperature = 1 /\ rd.temps[1] = rd.temps[2])

----------------------------------------------------------------------------
(* Properties of update and current_temp of a manual observation *)

\* C16: update on a manual observation changes only last_update: no step of
\* a manual observation's life asks the weather source (the triple last handed
\* over stays the constructor's, no request fails) or changes its min, max,
\* current and avg temperature, weather code, sunrise, sunset or timestamp.
C16_ManualUpdateFrame ==
    [][weather.manual
       => /\ weather' = [weather EXCEPT !.last_update = weather'.last_update]
          /\ weather'.last_update \in {weather.last_update, now}
          /\ given'.op \in {"init", "update"}
          /\ given'.min_temp = given.min_temp /\ given'.max_temp = given.max_temp
          /\ given'.current_temp = given.current_temp]_vars

\* a manual observation was updated after its construction, and shows it only
\* in last_update
C16_Witness ==
    /\ weather.manual /\ given.op = "update"
    /\ weather.last_update > weather.timestamp
    /\ weather.cur = given.current_temp /\ weather.avg_temp = given.current_temp

\* C17: reading current_temp never changes the observation; a looked-up
\* observation answers every read with its stored current temperature, a manual
\* one with a value within [min_temp, max_temp] (chosen anew at every read: see
\* the witness, two reads in a row that differ from each other and from the
\* stored value).
C17_ReadingCurrentTemp ==
    [][rd' # rd
       => /\ weather' = weather
          /\ rd'.temps # <<>>
          /\ LET t == rd'.temps[Len(rd'.temps)]
             IN  IF weather.manual
                 THEN weather.min_temp <= t /\ t <= weather.max_temp
                 ELSE t = weather.cur]_vars

\* two successive reads of a manual observation returned two temperatures,
\* the later one neither the earlier one nor the stored one
C17_Witness ==
    /\ weather.manual /\ Len(rd.temps) = 2
    /\ rd.temps[1] # rd.temps[2]
    /\ rd.temps[2] # weather.cur /\ rd.temps[1] # weather.cur
    /\ weather.cur = given.current_temp

----------------------------------------------------------------------------
(* Properties of do_update, checked under SpecManual and SpecGui *)

\* the form of the last do_update, when it read the Manual tab
Submitted(g) == g.request.tab = "Manual"

\* the entries min, avg, max of a form are not in this order
TempsOutOfOrder(form) == ~(form.temps[1] <= form.temps[2] /\ form.temps[2] <= form.temps[3])

\* the sunset of a form is earlier in the day than its sunrise
SunsetBeforeSunrise(form) ==
    form.sunset[1] * 60 + form.sunset[2] < form.sunrise[1] * 60 + form.sunrise[2]

\* C18: a do_update that reads a Manual form whose temperatures are not in
\* the order min <= avg <= max, or whose sunset is before its sunrise, ends
\* with a warning, and the current session, the observations and the cache
\* _sim_dict are after it what they were before it.
C18_InvalidManualRejected ==
    [][(/\ Submitted(gui')
        /\ \/ TempsOutOfOrder(gui'.request.form)
           \/ SunsetBeforeSunrise(gui'.request.form))
       => /\ gui'.alert # "none"
          /\ gui'.boktaisim = gui.boktaisim
          /\ gui'.sim_dict = gui.sim_dict]_vars

\* a form with min 10, avg 5, max 20 was rejected while a manual session is
\* current and a looked-up one is cached
C18_Witness ==
    /\ Submitted(gui)
    /\ gui.request.form.temps = <<10, 5, 20>>
    /\ gui.alert = "Temperature values do not make sense!"
    /\ gui.boktaisim = "manual"
    /\ gui.sim_dict["manual"].present
    /\ gui.sim_dict["0,0"].present

\* the last do_update read coordinates from the Lat/Lon tab, and they are
\* numbers outside the ranges of latitude and longitude
OutOfRangeSubmitted(g) ==
    /\ g.request.tab = "Lat/Lon"
    /\ IsFloat(g.request.lat)
    /\ IsFloat(g.request.lon)
    /\ ~check_latlong(FloatOf[g.request.lat], FloatOf[g.request.lon])

\* C19: a do_update that reads a latitude outside [-90, 90] or a longitude
\* outside [-180, 180] ends with the warning of an invalid location, asks the
\* weather source nothing, and no session exists for these coordinates.
C19_OutOfRangeReported ==
    OutOfRangeSubmitted(gui)
        => /\ gui.alert = "Invalid latitude and longitude provided."
           /\ ~gui.request.resolved
           /\ ~gui.request.refreshed
           /\ ~gui.sim_dict[gui.request.lat \o "," \o gui.request.lon].present

\* the keys of looked-up locations
LocationKeys == Keys \ {"manual"}

\* the step is a do_update that got as far as the key of a looked-up location
Requested(g, clock, next_clock) == next_clock = clock /\ g.request.latlong \in LocationKeys

\* the last do_update ended without a warning and without an exception
Succeeded(g) == g.alert = "none" /\ g.request.raised = "none"

\* the time since last_refreshed exceeds the API update interval
Stale(w, clock) == clock - w.last_update > ApiUpdateInterval * TicksPerSecond

\* the time since last_refreshed, rounded to whole seconds (halves to the even
\* neighbour), exceeds the API update interval
StaleInWholeSeconds(w, clock) == Round(Q(clock - w.last_update, TicksPerSecond)) > ApiUpdateInterval

SessionExists(g) == g.boktaisim # "none"

\* C21: after any sequence of do_update calls, accepted or rejected with a
\* warning, the version that the current session reads through its parent
\* window, config.version, is one of 1, 2, 3.
C21_SessionVersionValid == SessionExists(gui) => version \in {1, 2, 3}

\* the modifier the test harness applies to its blend, tests.py 176-191
general_test_mod(weather_state) ==
    (IF weather_state \in {"h", "t"} THEN -2 ELSE 0)
    + (IF weather_state \in {"hr", "hc"} THEN -1 ELSE 0)
    + (IF weather_state \in {"lc", "s", "c"} THEN 1 ELSE 0)

\* C22: the modifier that a daytime read adds to the blend of its signals is
\* the one the test harness applies for the observation's condition code: -2
\* for h and t, -1 for hr and hc, +1 for lc, s and c, 0 for sn, sl and lr.
C22_ModifierAsHarness ==
    (ReadEnded /\ rd.status = "returned" /\ rd.branch = "day")
    => rd.pre = Clamped(QAdd(WeightedAvg, I(general_test_mod(weather.weather_state))))

\* C23: for old_min < old_max, new_min < new_max and old_min <= v <= old_max,
\* clamp_and_scale of v from [old_min, old_max] to [new_min, new_max], scaled
\* back from [new_min, new_max] to [old_min, old_max], returns v.  The
\* arithmetic is that of the rationals: the rounding of Python's floats, which
\* may move the result by an ulp, is not part of this statement.
C23_RoundTrip ==
    (/\ call.inverted
     /\ call.args[1] < call.args[2]
     /\ call.args[3] < call.args[4]
     /\ call.args[1] <= call.args[5]
     /\ call.args[5] <= call.args[2])
    => call.back = Return(I(call.args[5]))

\* a value strictly inside the old range came back from a range of another
\* width that does not start at 0, where it was a fraction
C23_Witness ==
    /\ call.inverted
    /\ call.args[1] < call.args[5] /\ call.args[5] < call.args[2]
    /\ call.args[3] < call.args[4] /\ call.args[3] # 0
    /\ call.args[4] - call.args[3] # call.args[2] - call.args[1]
    /\ call.out.val[2] # 1
    /\ call.back = Return(I(call.args[5]))

----------------------------------------------------------------------------
(* Properties of do_update with its labels, bar and timers, checked under SpecBar *)

\* the do_update last called had the Manual tab's form accepted
AcceptedManual(g) == Submitted(g) /\ g.alert = "none" /\ g.request.form.filled

\* C24: after an accepted manual submission every read of the session's value
\* returns a reading: none ends in a division by zero, also when the form's
\* minimum, average and maximum temperature are equal or when its sunrise and
\* sunset are the current second
C24_AcceptedManualReads == AcceptedManual(gui) => gui.request.raised # "ZeroDivisionError"

----------------------------------------------------------------------------
(* Properties of a read of value and of the day phase, checked under SpecRace *)

\* a read of value has ended, and the clock stood still during it
RaceEnded == pc = "done" /\ sun.op = "value"
StoodStill == \A k \in DOMAIN sun.clocks : sun.clocks[k] = sun.clocks[1]

\* C25: whenever the day phase reported by sun_state is 'Moonlight' and lunar
\* mode is off, the reading computed from the same sun position is 0
C25_MoonlightReadsZero ==
    (RaceEnded /\ StoodStill /\ ~lunar_mode /\ sun.out = "Moonlight")
    => (rd.status = "returned" /\ rd.result = 0)

\* the sun signal of the read was computed from a night position (100 or -1),
\* and the read ended in one of the night branches
NightSignal == rd.seen[1] \in {I(100), I(-1)}
NightBranch == rd.branch \in {"night", "lunar"}

\* C26: with the clock free to advance between the accesses of sun_position,
\* the sun signal and the night tests of one read see the same classification:
\* a read that returns took a night branch exactly when its sun signal was
\* computed from a night position
C26_OneClassificationPerRead ==
    (RaceEnded /\ rd.status = "returned") => (NightSignal <=> NightBranch)

----------------------------------------------------------------------------
(* Properties of the lunar night reading, checked under Spec *)

\* a read in lunar mode whose sun position is a night position has returned
LunarNightRead ==
    ReadEnded /\ rd.status = "returned" /\ lunar_mode /\ rd.seen[1] \in {I(100), I(-1)}

\* C27: in lunar mode at night the reading never exceeds 3 for versions 2 and
\* 3 and never exceeds 2 for version 1: the sun signal is 0, the weather
\* modifier is not added and the blend over the weights' sum is halved
C27_LunarNightBound ==
    LunarNightRead
    => /\ rd.result <= (IF version = 1 THEN 2 ELSE 3)
       /\ rd.values.sun_location = I(0)
       /\ rd.pre = QDiv(QDiv(rd.sum, I(value_count(Len(value_names)))), I(2))

\* the bound is reached: temperature, weather and random signal all at 10
C27_Witness ==
    /\ LunarNightRead
    /\ rd.values.temperature = I(10) /\ rd.values.weather = I(10) /\ rd.values.random = I(10)
    /\ rd.result = (IF version = 1 THEN 2 ELSE 3)
    /\ WEATHER_STATES[weather.weather_state].mod # 0

----------------------------------------------------------------------------
(* Properties of the bar and of the timers, checked under SpecBar *)

\* C28: after any sequence of do_update calls and window resizes, whenever a
\* session exists the remembered bar value is a step of the current version's
\* meter table, so the lookup BOKTAI_METER[version][bar_value] never fails
C28_LastValueOnMeter ==
    SessionExists(gui)
    => /\ version \in DOMAIN BOKTAI_METER
       /\ gui.last_value \in DOMAIN BOKTAI_METER[version]
       /\ gui.resized # "KeyError"

\* C29: from the first do_update on exactly one timed_update is pending at
\* every moment
C29_OneTimerPending == ~gui.first_update => gui.timers = 1

----------------------------------------------------------------------------
(* Properties of a refresh whose request fails, checked under SpecGui *)

\* the last do_update tried to refresh the looked-up session and the request
\* failed: the warning of gui.py 1017-1024
FailedRefresh(g) ==
    /\ g.request.latlong \in LocationKeys
    /\ g.request.refreshed
    /\ g.alert = "Can not connect to API!"

\* C30: when the request made by update() on a looked-up observation fails, no
\* field of the observation changes, last_refreshed included: the observation
\* still has min_temp <= current <= max_temp and is still stale, and the next
\* do_update for that location attempts the refresh again
C30_FailedRefreshFrame ==
    [][/\ (Requested(gui', now, now') /\ FailedRefresh(gui'))
          => LET k == gui'.request.latlong
                 w == gui'.sim_dict[k].weather
             IN  /\ gui'.sim_dict = gui.sim_dict
                 /\ w.min_temp <= w.cur /\ w.cur <= w.max_temp
                 /\ StaleInWholeSeconds(w, now')
                 /\ asks(gui', k, now')
       /\ (FailedRefresh(gui) /\ Requested(gui', now, now')
              /\ gui'.request.latlong = gui.request.latlong)
          => gui'.request.refreshed]_vars

\* a refresh has failed on a stored session, after some time has passed
C30_Witness ==
    /\ FailedRefresh(gui)
    /\ gui.sim_dict[gui.request.latlong].present
    /\ gui.boktaisim = gui.request.latlong
    /\ gui.sim_dict[gui.request.latlong].weather.last_update < now
    /\ StaleInWholeSeconds(gui.sim_dict[gui.request.latlong].weather, now)

====
